---------------------------- MODULE Spec2Model ----------------------------
(***************************************************************************)
(* A model of the two scripts of the repository:                           *)
(*   scripts/project-structure.py     (ignore-rule matcher and tree mode)  *)
(*   scripts/create-ai-transfer-doc.py (concatenation mode)                *)
(*                                                                         *)
(* Text is modelled as a sequence of one-character strings, so that the    *)
(* string operations of the code (split, replace, startswith, re.escape,   *)
(* re.match, os.path) are computed the way the code computes them.         *)
(* Python 3.7 or later is assumed (re.escape leaves "/" alone).            *)
(***************************************************************************)
EXTENDS Integers, Sequences, FiniteSets, TLC

(***************************************************************************)
(* Bounds of the model.                                                    *)
(***************************************************************************)
\* longest list of lines read from the rules file
MaxRules == 2

(***************************************************************************)
(* Text literals.                                                          *)
(***************************************************************************)
SEP == "/"
EMPTY == << >>
DOT == <<".">>
DOTDOT == <<".", ".">>
GIT_DIR == <<".", "g", "i", "t">>
GITIGNORE == <<".", "g", "i", "t", "i", "g", "n", "o", "r", "e">>
TS_SUFFIX == <<".", "t", "s">>
ERROR_PREFIX == <<"E", "r", "r", "o", "r", ":">>
\* the working directory of the process, as a list of path components
Cwd == << <<"w">> >>

(***************************************************************************)
(* str methods.                                                            *)
(***************************************************************************)
startswith(s, p) == Len(p) <= Len(s) /\ SubSeq(s, 1, Len(p)) = p

endswith(s, p) == Len(p) <= Len(s) /\ SubSeq(s, Len(s) - Len(p) + 1, Len(s)) = p

RECURSIVE split(_, _)
split(s, sep) ==
    IF \E i \in 1..Len(s) : s[i] = sep
    THEN LET i == CHOOSE k \in 1..Len(s) :
                      s[k] = sep /\ \A j \in 1..(k - 1) : s[j] # sep
         IN  <<SubSeq(s, 1, i - 1)>> \o split(SubSeq(s, i + 1, Len(s)), sep)
    ELSE <<s>>

RECURSIVE join_str(_, _)
join_str(parts, sep) ==
    IF Len(parts) = 0 THEN EMPTY
    ELSE IF Len(parts) = 1 THEN parts[1]
    ELSE parts[1] \o <<sep>> \o join_str(Tail(parts), sep)

\* str.replace(old, new) for a non-empty old: leftmost, non-overlapping
RECURSIVE replace(_, _, _)
replace(s, old, new) ==
    IF Len(s) < Len(old) THEN s
    ELSE IF SubSeq(s, 1, Len(old)) = old
         THEN new \o replace(SubSeq(s, Len(old) + 1, Len(s)), old, new)
         ELSE <<s[1]>> \o replace(Tail(s), old, new)

count(s, c) == Cardinality({i \in 1..Len(s) : s[i] = c})

IsSpace(c) == c \in {" ", "\t", "\n", "\r"}

RECURSIVE lstrip(_)
lstrip(s) == IF Len(s) > 0 /\ IsSpace(s[1]) THEN lstrip(Tail(s)) ELSE s

RECURSIVE rstrip(_)
rstrip(s) ==
    IF Len(s) > 0 /\ IsSpace(s[Len(s)]) THEN rstrip(SubSeq(s, 1, Len(s) - 1)) ELSE s

strip(s) == rstrip(lstrip(s))

(***************************************************************************)
(* os.path functions (POSIX).                                              *)
(***************************************************************************)
basename(p) ==
    LET idx == {i \in 1..Len(p) : p[i] = SEP}
        last == IF idx = {} THEN 0 ELSE CHOOSE i \in idx : \A j \in idx : j <= i
    IN  SubSeq(p, last + 1, Len(p))

path_join(a, b) ==
    IF startswith(b, <<SEP>>) THEN b
    ELSE IF a = EMPTY \/ endswith(a, <<SEP>>) THEN a \o b
    ELSE a \o <<SEP>> \o b

\* normpath on a list of components: drops "" and ".", resolves ".."
RECURSIVE NormComps(_, _)
NormComps(parts, acc) ==
    IF Len(parts) = 0 THEN acc
    ELSE LET c == parts[1]
         IN  IF c = EMPTY \/ c = DOT THEN NormComps(Tail(parts), acc)
             ELSE IF c = DOTDOT
                  THEN NormComps(Tail(parts),
                                 IF Len(acc) = 0 THEN acc
                                 ELSE SubSeq(acc, 1, Len(acc) - 1))
                  ELSE NormComps(Tail(parts), Append(acc, c))

\* abspath, as the list of components below "/"
abspath(p) ==
    IF startswith(p, <<SEP>>) THEN NormComps(split(p, SEP), << >>)
    ELSE NormComps(Cwd \o split(p, SEP), << >>)

RECURSIVE CommonPrefixLen(_, _)
CommonPrefixLen(a, b) ==
    IF Len(a) = 0 \/ Len(b) = 0 \/ a[1] # b[1] THEN 0
    ELSE 1 + CommonPrefixLen(Tail(a), Tail(b))

relpath(path, start) ==
    LET start_list == abspath(start)
        path_list == abspath(path)
        i == CommonPrefixLen(start_list, path_list)
        rel_list == [k \in 1..(Len(start_list) - i) |-> DOTDOT]
                        \o SubSeq(path_list, i + 1, Len(path_list))
    IN  IF Len(rel_list) = 0 THEN DOT ELSE join_str(rel_list, SEP)

(***************************************************************************)
(* re.escape and re.match, for the expressions the matcher builds:         *)
(* "\" c is the literal c, ".*" any sequence, "." any one character,       *)
(* "^" and "$" the two ends.                                               *)
(***************************************************************************)
ReSpecial == {"(", ")", "[", "]", "{", "}", "?", "*", "+", "-", "|", "^", "$",
              "\\", ".", "&", "~", "#", " ", "\t", "\n", "\r"}

RECURSIVE re_escape(_)
re_escape(s) ==
    IF Len(s) = 0 THEN EMPTY
    ELSE (IF s[1] \in ReSpecial THEN <<"\\", s[1]>> ELSE <<s[1]>>)
             \o re_escape(Tail(s))

RECURSIVE re_match(_, _)
re_match(r, s) ==
    IF Len(r) = 0 THEN TRUE
    ELSE IF r[1] = "^" THEN re_match(Tail(r), s)
    ELSE IF r[1] = "$" THEN Len(s) = 0 /\ re_match(Tail(r), s)
    ELSE IF r[1] = "\\"
         THEN Len(r) >= 2 /\ Len(s) > 0 /\ s[1] = r[2]
              /\ re_match(SubSeq(r, 3, Len(r)), Tail(s))
    ELSE IF r[1] = "." /\ Len(r) >= 2 /\ r[2] = "*"
         THEN \/ re_match(SubSeq(r, 3, Len(r)), s)
              \/ Len(s) > 0 /\ s[1] # "\n" /\ re_match(r, Tail(s))
    ELSE IF r[1] = "."
         THEN Len(s) > 0 /\ s[1] # "\n" /\ re_match(Tail(r), Tail(s))
    ELSE Len(s) > 0 /\ s[1] = r[1] /\ re_match(Tail(r), Tail(s))

(***************************************************************************)
(* parse_gitignore: the lines of the rules file to (pattern, is_negation)  *)
(* pairs.  A missing file gives no pattern.                                *)
(***************************************************************************)
RECURSIVE ParseLines(_)
ParseLines(lines) ==
    IF Len(lines) = 0 THEN << >>
    ELSE LET line == strip(lines[1])
         IN  IF line = EMPTY \/ startswith(line, <<"#">>)
             THEN ParseLines(Tail(lines))
             ELSE IF startswith(line, <<"!">>)
                  THEN << <<Tail(line), TRUE>> >> \o ParseLines(Tail(lines))
                  ELSE << <<line, FALSE>> >> \o ParseLines(Tail(lines))

parse_gitignore(exists, lines) == IF exists THEN ParseLines(lines) ELSE << >>

(***************************************************************************)
(* matches_gitignore_pattern.                                              *)
(***************************************************************************)
HasGitSegment(filepath) ==
    \E i \in 1..Len(split(filepath, SEP)) : split(filepath, SEP)[i] = GIT_DIR

\* lines 40-54: the expression built for one pattern
PatternRegex(pattern) ==
    LET is_dir_pattern == endswith(pattern, <<SEP>>)
        pattern_str == IF is_dir_pattern
                       THEN SubSeq(pattern, 1, Len(pattern) - 1)
                       ELSE pattern
        escaped == replace(replace(re_escape(pattern_str),
                                   <<"\\", "*">>, <<".", "*">>),
                           <<"\\", "?">>, <<".">>)
        regex_pattern == IF ~startswith(pattern_str, <<SEP>>)
                         THEN <<".", "*">> \o escaped
                         ELSE Tail(escaped)
    IN  <<"^">> \o regex_pattern \o <<"$">>

\* lines 56-57: the test of one pattern against the candidate
PatternMatches(pattern, filepath, root_dir) ==
    \/ re_match(PatternRegex(pattern), relpath(filepath, root_dir))
    \/ re_match(PatternRegex(pattern), basename(filepath))

\* a loop that keeps the first exclusion: a later negation no longer overrides
PatternStep_FirstExclusionWins(matched, rule, filepath, root_dir) ==
    IF matched THEN TRUE
    ELSE IF PatternMatches(rule[1], filepath, root_dir)
         THEN (IF rule[2] THEN FALSE ELSE TRUE)
         ELSE matched

\* lines 38-61: one iteration of the loop over the patterns
PatternStep(matched, rule, filepath, root_dir) ==
    IF PatternMatches(rule[1], filepath, root_dir)
    THEN (IF rule[2] THEN FALSE ELSE TRUE)
    ELSE matched

RECURSIVE PatternLoop(_, _, _, _)
PatternLoop(matched, patterns, filepath, root_dir) ==
    IF Len(patterns) = 0 THEN matched
    ELSE PatternLoop(PatternStep(matched, patterns[1], filepath, root_dir),
                     Tail(patterns), filepath, root_dir)

matches_gitignore_pattern(filepath, patterns, root_dir) ==
    IF HasGitSegment(filepath) THEN TRUE
    ELSE PatternLoop(FALSE, patterns, filepath, root_dir)

(***************************************************************************)
(* State.                                                                  *)
(***************************************************************************)
VARIABLES
    \* one call of matches_gitignore_pattern
    filepath,             \* the candidate path
    patterns,             \* the (pattern, is_negation) pairs
    match_root,           \* root_dir of the call
    pattern_index,        \* the position of the loop of line 38
    matched_by_exclude,   \* the running result
    match_result,         \* "none" before the return, then the value returned
    rule_hits,            \* per rule evaluated so far, whether line 56 held
    match_pc,             \* "entry", "loop", "returned"
    \* one run of generate_project_structure_doc
    fs_dirs,              \* the directories that exist (absolute components)
    fs_files,             \* the files that exist (absolute components)
    gitignore_lines,      \* the lines of <root>/.gitignore, if it exists
    root_dir,             \* the argument root_dir
    output_file,          \* the argument output_file
    gitignore_patterns,   \* the parsed rules
    output_content,       \* the lines of the output file, if it exists
    walk_stack,           \* the directories os.walk has still to visit
    pruned,               \* the directories removed from dirnames at line 82
    output_was_there,     \* whether the output file existed before the run
    tree_pc,              \* "start", "walk", "done", "raised"
    \* one run of create-ai-transfer-doc.py
    src_dirs,             \* the directories that exist (absolute components)
    src_files,            \* the files that exist (absolute components)
    read_error,           \* per file, the reason reading it fails, or empty
    directory_path,       \* ts_source_directory, the argument directory_path
    concatenated_content, \* the list of line 14
    ts_stack,             \* the directories os.walk has still to visit
    ts_root,              \* the directory of the current iteration
    ts_pending,           \* its file names not yet handled
    concatenated_ts_code, \* the value the function returned
    out_file,             \* the output file: [exists, text]
    stdout,               \* what was printed
    opened,               \* the files opened for reading
    written,              \* whether the output file was written
    concat_pc             \* "main", "walk", "returned", "done"

matchVars == <<filepath, patterns, match_root, pattern_index,
               matched_by_exclude, match_result, rule_hits, match_pc>>

treeVars == <<fs_dirs, fs_files, gitignore_lines, root_dir, output_file,
              gitignore_patterns, output_content, walk_stack, pruned,
              output_was_there, tree_pc>>

concatVars == <<src_dirs, src_files, read_error, directory_path,
                concatenated_content, ts_stack, ts_root, ts_pending,
                concatenated_ts_code, out_file, stdout, opened, written,
                concat_pc>>

vars == <<matchVars, treeVars, concatVars>>

(***************************************************************************)
(* The inputs of the matcher: roots, candidates below them, rules files.   *)
(***************************************************************************)
N_keep_log == <<"k", "e", "e", "p", ".", "l", "o", "g">>
N_other_log == <<"o", "t", "h", "e", "r", ".", "l", "o", "g">>
N_X == <<"X">>
N_f == <<"f">>
N_foo == <<"f", "o", "o">>
N_a == <<"a">>

L_star_log == <<"*", ".", "l", "o", "g">>
L_not_keep_log == <<"!", "k", "e", "e", "p", ".", "l", "o", "g">>
L_X_dir == <<"X", "/">>
L_not_X == <<"!", "X">>
L_anchored_foo == <<"/", "f", "o", "o">>
L_fo_any == <<"f", "o", "?">>

MatchRoots == {DOT, <<"p", "/", "q">>}

MatchRel == { << >>, <<N_keep_log>>, <<N_other_log>>, <<N_X>>, <<N_X, N_f>>,
              <<N_X, N_keep_log>>, <<N_foo>>, <<N_a, N_foo>>, <<N_a>>,
              <<N_a, N_X>>, <<GIT_DIR>>, <<GIT_DIR, N_foo>>,
              <<N_a, GIT_DIR, N_keep_log>> }

MatchLines == {L_star_log, L_not_keep_log, L_X_dir, L_not_X, L_anchored_foo,
               L_fo_any}

\* every list of at most n elements of S
SeqsUpTo(S, n) == UNION {[1..k -> S] : k \in 0..n}

\* os.path.join applied along a list of names
RECURSIVE JoinAll(_, _)
JoinAll(base, names) ==
    IF Len(names) = 0 THEN base
    ELSE JoinAll(path_join(base, names[1]), Tail(names))

\* the state of a script that is not running
MatchIdle ==
    /\ filepath = EMPTY /\ patterns = << >> /\ match_root = EMPTY
    /\ pattern_index = 0 /\ matched_by_exclude = FALSE
    /\ match_result = "none" /\ rule_hits = << >> /\ match_pc = "idle"

TreeIdle ==
    /\ fs_dirs = {} /\ fs_files = {} /\ gitignore_lines = << >>
    /\ root_dir = EMPTY /\ output_file = EMPTY /\ gitignore_patterns = << >>
    /\ output_content = << >> /\ walk_stack = << >> /\ pruned = {}
    /\ output_was_there = FALSE
    /\ tree_pc = "idle"

ConcatIdle ==
    /\ src_dirs = {} /\ src_files = {} /\ read_error = << >>
    /\ directory_path = EMPTY /\ concatenated_content = << >>
    /\ ts_stack = << >> /\ ts_root = EMPTY /\ ts_pending = << >>
    /\ concatenated_ts_code = EMPTY
    /\ out_file = [exists |-> FALSE, text |-> EMPTY]
    /\ stdout = << >> /\ opened = {} /\ written = FALSE
    /\ concat_pc = "idle"

(***************************************************************************)
(* matches_gitignore_pattern, one loop iteration per step.                 *)
(***************************************************************************)
MatchInit ==
    /\ match_root \in MatchRoots
    /\ \E rel \in MatchRel : filepath = JoinAll(match_root, rel)
    /\ \E lines \in SeqsUpTo(MatchLines, MaxRules) :
           patterns = parse_gitignore(TRUE, lines)
    /\ pattern_index = 0
    /\ matched_by_exclude = FALSE
    /\ match_result = "none"
    /\ rule_hits = << >>
    /\ match_pc = "entry"
    /\ TreeIdle
    /\ ConcatIdle

\* lines 29-36
MatchEnter ==
    /\ match_pc = "entry"
    /\ IF HasGitSegment(filepath)
       THEN /\ match_result' = TRUE
            /\ match_pc' = "returned"
            /\ UNCHANGED pattern_index
       ELSE /\ match_pc' = "loop"
            /\ pattern_index' = 1
            /\ UNCHANGED match_result
    /\ UNCHANGED <<filepath, patterns, match_root, matched_by_exclude, rule_hits>>
    /\ UNCHANGED <<treeVars, concatVars>>

\* lines 38-61
MatchIterate ==
    /\ match_pc = "loop"
    /\ pattern_index <= Len(patterns)
    /\ matched_by_exclude' =
           PatternStep(matched_by_exclude, patterns[pattern_index],
                       filepath, match_root)
    /\ rule_hits' = Append(rule_hits,
                            PatternMatches(patterns[pattern_index][1],
                                           filepath, match_root))
    /\ pattern_index' = pattern_index + 1
    /\ UNCHANGED <<filepath, patterns, match_root, match_result, match_pc>>
    /\ UNCHANGED <<treeVars, concatVars>>

\* line 63
MatchReturn ==
    /\ match_pc = "loop"
    /\ pattern_index > Len(patterns)
    /\ match_result' = matched_by_exclude
    /\ match_pc' = "returned"
    /\ UNCHANGED <<filepath, patterns, match_root, pattern_index,
                   matched_by_exclude, rule_hits>>
    /\ UNCHANGED <<treeVars, concatVars>>

MatchNext == MatchEnter \/ MatchIterate \/ MatchReturn

SpecMatch == MatchInit /\ [][MatchNext]_vars

(***************************************************************************)
(* The file system and the inputs of tree mode.                            *)
(***************************************************************************)
\* the default of the parameter output_file
DEFAULT_OUTPUT == <<"p", "r", "o", "j", "e", "c", "t", "_", "s", "t", "r", "u", "c", "t", "u", "r", "e", ".", "t", "x", "t">>
N_out_txt == <<"o", "u", "t", ".", "t", "x", "t">>
N_b == <<"b">>

\* the root directories tried
TreeRoots == {DOT, <<"a", "/", "b">>, GIT_DIR}

\* directory trees below the root: [dirs, files], as lists of names
TreeShapes ==
    { [dirs |-> {}, files |-> {}],
      [dirs |-> {<<N_a>>, <<N_a, N_b>>, <<GIT_DIR>>},
       files |-> {<<N_a, N_f>>, <<N_a, N_b, N_f>>, <<GIT_DIR, N_f>>}],
      [dirs |-> {<<N_b>>}, files |-> {<<N_f>>, <<N_b, N_f>>}] }

L_a_dir == <<"a", "/">>
L_not_f == <<"!", "f">>
L_star_txt == <<"*", ".", "t", "x", "t">>
L_comment == <<"#", " ", "c">>

TreeLines == {L_a_dir, N_b, L_not_f, L_star_txt, L_comment}

\* every proper prefix of a list of components
Ancestors(n) == {SubSeq(n, 1, k) : k \in 0..(Len(n) - 1)}

isdir(dirs, path) == abspath(path) \in dirs

exists(dirs, files, path) == abspath(path) \in (dirs \cup files)

\* the names os.scandir gives for a directory, of one kind
Children(nodes, dirpath) ==
    LET d == abspath(dirpath)
    IN  {n[Len(n)] : n \in {m \in nodes : Len(m) = Len(d) + 1
                                          /\ SubSeq(m, 1, Len(d)) = d}}

\* every order in which a directory listing may come
Orders(S) ==
    {o \in [1..Cardinality(S) -> S] : \A i, j \in DOMAIN o : o[i] = o[j] => i = j}

\* an open that creates the file only later, after the traversal
OpenForWrite_CreatedLater(files, path) == files

\* open(path, "w") on an openable path: the file exists from then on
OpenForWrite(files, path) == files \cup {abspath(path)}

(***************************************************************************)
(* generate_project_structure_doc.                                         *)
(***************************************************************************)
HeaderLines(root) ==
    << [kind |-> "header", indent |-> 0, text |-> root, path |-> EMPTY],
       [kind |-> "separator", indent |-> 0, text |-> EMPTY, path |-> EMPTY] >>

\* a traversal whose list of subdirectories is left as listed
PruneDirnames_KeepAll(dirpath, dirnames, rules, root) == dirnames

\* line 82: the subdirectories the traversal keeps
PruneDirnames(dirpath, dirnames, rules, root) ==
    SelectSeq(dirnames,
              LAMBDA d : ~matches_gitignore_pattern(path_join(dirpath, d),
                                                    rules, root))

\* line 84
Level(dirpath, root) == count(replace(dirpath, root, EMPTY), SEP)

\* lines 94-97: the lines written for the files of one directory
RECURSIVE FileLines(_, _, _, _, _)
FileLines(dirpath, filenames, subindent, rules, root) ==
    IF Len(filenames) = 0 THEN << >>
    ELSE LET fp == path_join(dirpath, filenames[1])
             rest == FileLines(dirpath, Tail(filenames), subindent, rules, root)
         IN  IF ~matches_gitignore_pattern(fp, rules, root)
             THEN << [kind |-> "file", indent |-> subindent,
                      text |-> filenames[1], path |-> fp] >> \o rest
             ELSE rest

\* lines 84-97: the lines written for one directory the traversal yields
DirectoryLines(dirpath, filenames, rules, root) ==
    LET level == Level(dirpath, root)
    IN  IF dirpath # root /\ matches_gitignore_pattern(dirpath, rules, root)
        THEN << >>
        ELSE << [kind |-> "dir", indent |-> 4 * level,
                 text |-> basename(dirpath) \o <<SEP>>, path |-> dirpath] >>
             \o FileLines(dirpath, filenames, 4 * (level + 1), rules, root)

TreeInit ==
    /\ root_dir \in TreeRoots
    /\ \E shape \in TreeShapes, root_exists \in BOOLEAN, rules_exist \in BOOLEAN,
          old_output \in BOOLEAN :
         LET r == abspath(root_dir)
             below == IF root_exists THEN {r} \cup {r \o n : n \in shape.dirs}
                      ELSE {}
             out == abspath(output_file)
         IN  /\ root_dir = DOT => root_exists
             /\ ~root_exists => (shape = [dirs |-> {}, files |-> {}] /\ ~rules_exist)
             /\ output_file \in {DEFAULT_OUTPUT, path_join(root_dir, N_out_txt)}
             /\ gitignore_lines \in
                    IF rules_exist THEN SeqsUpTo(TreeLines, MaxRules)
                    ELSE {<< >>}
             /\ fs_dirs = {Cwd} \cup Ancestors(r) \cup below
             /\ old_output => Ancestors(out) \subseteq fs_dirs
             /\ output_was_there = old_output
             /\ fs_files =
                    (IF root_exists THEN {r \o n : n \in shape.files} ELSE {})
                    \cup (IF rules_exist THEN {r \o <<GITIGNORE>>} ELSE {})
                    \cup (IF old_output THEN {out} ELSE {})
             /\ output_content =
                    IF old_output
                    THEN << [kind |-> "old", indent |-> 0, text |-> EMPTY,
                             path |-> EMPTY] >>
                    ELSE << >>
    /\ gitignore_patterns = << >>
    /\ walk_stack = << >>
    /\ pruned = {}
    /\ tree_pc = "start"
    /\ MatchIdle
    /\ ConcatIdle

\* lines 73-78: the rules are parsed, the output file is opened for writing
\* and the two header lines are written
TreeOpen ==
    /\ tree_pc = "start"
    /\ Ancestors(abspath(output_file)) \subseteq fs_dirs
    /\ gitignore_patterns' =
           parse_gitignore(exists(fs_dirs, fs_files,
                                  path_join(root_dir, GITIGNORE)),
                           gitignore_lines)
    /\ fs_files' = OpenForWrite(fs_files, output_file)
    /\ output_content' = HeaderLines(root_dir)
    /\ walk_stack' = <<root_dir>>
    /\ tree_pc' = "walk"
    /\ UNCHANGED <<fs_dirs, gitignore_lines, root_dir, output_file, pruned,
                   output_was_there>>
    /\ UNCHANGED <<matchVars, concatVars>>

\* line 76 when the directory of the output file does not exist: open raises
TreeOpenFails ==
    /\ tree_pc = "start"
    /\ ~(Ancestors(abspath(output_file)) \subseteq fs_dirs)
    /\ gitignore_patterns' =
           parse_gitignore(exists(fs_dirs, fs_files,
                                  path_join(root_dir, GITIGNORE)),
                           gitignore_lines)
    /\ tree_pc' = "raised"
    /\ UNCHANGED <<fs_dirs, fs_files, gitignore_lines, root_dir, output_file,
                   output_content, walk_stack, pruned, output_was_there>>
    /\ UNCHANGED <<matchVars, concatVars>>

\* lines 80-97: one iteration of the loop over os.walk(root_dir)
TreeWalkStep ==
    /\ tree_pc = "walk"
    /\ Len(walk_stack) > 0
    /\ LET dirpath == Head(walk_stack)
       IN  IF ~isdir(fs_dirs, dirpath)
           THEN \* os.walk ignores the listing error and yields nothing
                /\ walk_stack' = Tail(walk_stack)
                /\ UNCHANGED <<output_content, pruned>>
           ELSE \E dirnames \in Orders(Children(fs_dirs, dirpath)),
                   filenames \in Orders(Children(fs_files, dirpath)) :
                  LET kept == PruneDirnames(dirpath, dirnames,
                                            gitignore_patterns, root_dir)
                  IN  /\ pruned' = pruned \cup
                            {path_join(dirpath, dirnames[i]) :
                               i \in {j \in 1..Len(dirnames) :
                                        matches_gitignore_pattern(
                                            path_join(dirpath, dirnames[j]),
                                            gitignore_patterns, root_dir)}}
                      /\ output_content' = output_content \o
                            DirectoryLines(dirpath, filenames,
                                           gitignore_patterns, root_dir)
                      /\ walk_stack' =
                            [i \in 1..Len(kept) |-> path_join(dirpath, kept[i])]
                                \o Tail(walk_stack)
    /\ UNCHANGED <<fs_dirs, fs_files, gitignore_lines, root_dir, output_file,
                   gitignore_patterns, output_was_there, tree_pc>>
    /\ UNCHANGED <<matchVars, concatVars>>

\* the traversal is exhausted: the file is closed and the script ends
TreeClose ==
    /\ tree_pc = "walk"
    /\ Len(walk_stack) = 0
    /\ tree_pc' = "done"
    /\ UNCHANGED <<fs_dirs, fs_files, gitignore_lines, root_dir, output_file,
                   gitignore_patterns, output_content, walk_stack, pruned,
                   output_was_there>>
    /\ UNCHANGED <<matchVars, concatVars>>

TreeNext ==
    \/ TreeOpen
    \/ TreeOpenFails
    \/ TreeWalkStep
    \/ TreeClose

SpecTree == TreeInit /\ [][TreeNext]_vars

(***************************************************************************)
(* create-ai-transfer-doc.py: the texts it builds.                         *)
(***************************************************************************)
NL == "\n"
START_OF_FILE == <<"/", "/", " ", "!", "!", "-", "-", " ", "S", "T", "A", "R", "T", " ", "O", "F", " ", "F", "I", "L", "E", " ", "-", "-", "!", "!">>
SRC_COMMENT == <<"/", "/", " ", "s", "r", "c", "/">>
ERROR_READING == <<"E", "r", "r", "o", "r", " ", "r", "e", "a", "d", "i", "n", "g", " ">>
COMMENT == <<"/", "/", " ">>
NOT_FOUND_HEAD == <<"E", "r", "r", "o", "r", ":", " ", "D", "i", "r", "e", "c", "t", "o", "r", "y", " ", "'">>
NOT_FOUND_TAIL == <<"'", " ", "n", "o", "t", " ", "f", "o", "u", "n", "d", ".">>
OUTPUT_FILE_NAME == <<"f", "u", "l", "l", "_", "p", "r", "o", "j", "e", "c", "t", "_", "s", "o", "u", "r", "c", "e", ".", "t", "s">>

N_src == <<"s", "r", "c">>
N_x_ts == <<"x", ".", "t", "s">>
N_y_txt == <<"y", ".", "t", "x", "t">>
N_z_ts == <<"z", ".", "t", "s">>
N_n_ts == <<"n", ".", "t", "s">>
N_ts_dir == <<"d", ".", "t", "s">>
R_denied == <<"d", "e", "n", "i", "e", "d">>

\* the source directories tried
SourcePaths == {N_src, <<"l", "i", "b", "/">>}

\* directory trees below the source directory
SourceShapes ==
    { [dirs |-> {}, files |-> {}],
      [dirs |-> {<<N_a>>}, files |-> {<<N_y_txt>>, <<N_a, N_y_txt>>}],
      [dirs |-> {<<N_a>>, <<N_ts_dir>>},
       files |-> {<<N_x_ts>>, <<N_y_txt>>, <<N_a, N_z_ts>>, <<N_a, N_n_ts>>}] }

\* what f.read() gives for a file
FileContent(n) == ERROR_PREFIX \o <<" ">> \o n[Len(n)]

\* line 18
NotFoundMessage(path) == NOT_FOUND_HEAD \o path \o NOT_FOUND_TAIL

\* the items a file appended with a marker before the read would leave
ErrorItems_MarkerFirst(normalized_path, reason) ==
    << START_OF_FILE,
       COMMENT \o ERROR_READING \o normalized_path \o <<":", " ">> \o reason
           \o <<NL>> >>

\* line 40
ErrorItems(normalized_path, reason) ==
    << COMMENT \o ERROR_READING \o normalized_path \o <<":", " ">> \o reason
           \o <<NL>> >>

\* lines 36-37
BlockItems(normalized_path, content) ==
    << START_OF_FILE,
       SRC_COMMENT \o normalized_path \o <<NL>> \o content \o <<NL>> >>

\* a check that finds every directory
DirectoryFound_Always(dirs, path) == TRUE

\* line 17
DirectoryFound(dirs, path) == isdir(dirs, path)

\* line 60
IsErrorMessage(text) == startswith(text, ERROR_PREFIX)

(***************************************************************************)
(* concatenate_typescript_files and the main routine.                      *)
(***************************************************************************)
ConcatInit ==
    /\ directory_path \in SourcePaths
    /\ \E shape \in SourceShapes, kind \in {"dir", "missing", "file"},
          old_output \in BOOLEAN :
         LET d == abspath(directory_path)
             fileset == IF kind = "dir" THEN {d \o n : n \in shape.files}
                        ELSE IF kind = "file" THEN {d}
                        ELSE {}
         IN  /\ kind # "dir" => shape = [dirs |-> {}, files |-> {}]
             /\ src_dirs = {Cwd} \cup Ancestors(d)
                    \cup (IF kind = "dir" THEN {d} \cup {d \o n : n \in shape.dirs}
                          ELSE {})
             /\ src_files = fileset
             /\ read_error \in [fileset -> {EMPTY, R_denied}]
             /\ out_file = IF old_output
                           THEN [exists |-> TRUE, text |-> <<"o", "l", "d">>]
                           ELSE [exists |-> FALSE, text |-> EMPTY]
    /\ concatenated_content = << >>
    /\ ts_stack = << >>
    /\ ts_root = EMPTY
    /\ ts_pending = << >>
    /\ concatenated_ts_code = EMPTY
    /\ stdout = << >>
    /\ opened = {}
    /\ written = FALSE
    /\ concat_pc = "main"
    /\ MatchIdle
    /\ TreeIdle

\* lines 57-58 and 17-18: the directory is not there, the message is returned
ConcatNotFound ==
    /\ concat_pc = "main"
    /\ ~DirectoryFound(src_dirs, directory_path)
    /\ concatenated_ts_code' = NotFoundMessage(directory_path)
    /\ stdout' = Append(stdout, [kind |-> "start", text |-> directory_path])
    /\ concat_pc' = "returned"
    /\ UNCHANGED <<src_dirs, src_files, read_error, directory_path,
                   concatenated_content, ts_stack, ts_root, ts_pending,
                   out_file, opened, written>>
    /\ UNCHANGED <<matchVars, treeVars>>

\* lines 57-58, 14-21: the traversal starts
ConcatBegin ==
    /\ concat_pc = "main"
    /\ DirectoryFound(src_dirs, directory_path)
    /\ ts_stack' = <<directory_path>>
    /\ stdout' = Append(stdout, [kind |-> "start", text |-> directory_path])
    /\ concat_pc' = "walk"
    /\ UNCHANGED <<src_dirs, src_files, read_error, directory_path,
                   concatenated_content, ts_root, ts_pending,
                   concatenated_ts_code, out_file, opened, written>>
    /\ UNCHANGED <<matchVars, treeVars>>

\* line 21: os.walk yields the next directory
ConcatNextDir ==
    /\ concat_pc = "walk"
    /\ Len(ts_pending) = 0
    /\ Len(ts_stack) > 0
    /\ LET root == Head(ts_stack)
       IN  IF ~isdir(src_dirs, root)
           THEN \* os.walk ignores the listing error and yields nothing
                /\ ts_stack' = Tail(ts_stack)
                /\ UNCHANGED <<ts_root, ts_pending>>
           ELSE \E dirnames \in Orders(Children(src_dirs, root)),
                   files \in Orders(Children(src_files, root)) :
                  /\ ts_root' = root
                  /\ ts_pending' = files
                  /\ ts_stack' =
                        [i \in 1..Len(dirnames) |-> path_join(root, dirnames[i])]
                            \o Tail(ts_stack)
    /\ UNCHANGED <<src_dirs, src_files, read_error, directory_path,
                   concatenated_content, concatenated_ts_code, out_file,
                   stdout, opened, written, concat_pc>>
    /\ UNCHANGED <<matchVars, treeVars>>

\* line 23: a file without the suffix is passed over
ConcatSkipFile ==
    /\ concat_pc = "walk"
    /\ Len(ts_pending) > 0
    /\ ~endswith(Head(ts_pending), TS_SUFFIX)
    /\ ts_pending' = Tail(ts_pending)
    /\ UNCHANGED <<src_dirs, src_files, read_error, directory_path,
                   concatenated_content, ts_stack, ts_root,
                   concatenated_ts_code, out_file, stdout, opened, written,
                   concat_pc>>
    /\ UNCHANGED <<matchVars, treeVars>>

\* lines 23-37: a file with the suffix is read and its block appended
ConcatReadFile ==
    /\ concat_pc = "walk"
    /\ Len(ts_pending) > 0
    /\ endswith(Head(ts_pending), TS_SUFFIX)
    /\ LET file_path == path_join(ts_root, Head(ts_pending))
           relative_path == relpath(file_path, directory_path)
           normalized_path == replace(relative_path, <<SEP>>, <<"/">>)
       IN  /\ read_error[abspath(file_path)] = EMPTY
           /\ opened' = opened \cup {abspath(file_path)}
           /\ concatenated_content' = concatenated_content \o
                  BlockItems(normalized_path, FileContent(abspath(file_path)))
    /\ ts_pending' = Tail(ts_pending)
    /\ UNCHANGED <<src_dirs, src_files, read_error, directory_path, ts_stack,
                   ts_root, concatenated_ts_code, out_file, stdout, written,
                   concat_pc>>
    /\ UNCHANGED <<matchVars, treeVars>>

\* lines 23-33, 38-41: reading the file raises, the error comment is appended
ConcatReadFails ==
    /\ concat_pc = "walk"
    /\ Len(ts_pending) > 0
    /\ endswith(Head(ts_pending), TS_SUFFIX)
    /\ LET file_path == path_join(ts_root, Head(ts_pending))
           relative_path == relpath(file_path, directory_path)
           normalized_path == replace(relative_path, <<SEP>>, <<"/">>)
           e == read_error[abspath(file_path)]
       IN  /\ e # EMPTY
           /\ opened' = opened \cup {abspath(file_path)}
           /\ concatenated_content' =
                  concatenated_content \o ErrorItems(normalized_path, e)
           /\ stdout' = Append(stdout,
                  [kind |-> "read_error",
                   text |-> ERROR_READING \o normalized_path \o <<":", " ">> \o e])
    /\ ts_pending' = Tail(ts_pending)
    /\ UNCHANGED <<src_dirs, src_files, read_error, directory_path, ts_stack,
                   ts_root, concatenated_ts_code, out_file, written, concat_pc>>
    /\ UNCHANGED <<matchVars, treeVars>>

\* line 43
ConcatReturn ==
    /\ concat_pc = "walk"
    /\ Len(ts_pending) = 0
    /\ Len(ts_stack) = 0
    /\ concatenated_ts_code' = join_str(concatenated_content, NL)
    /\ concat_pc' = "returned"
    /\ UNCHANGED <<src_dirs, src_files, read_error, directory_path,
                   concatenated_content, ts_stack, ts_root, ts_pending,
                   out_file, stdout, opened, written>>
    /\ UNCHANGED <<matchVars, treeVars>>

\* lines 60-61
MainPrintError ==
    /\ concat_pc = "returned"
    /\ IsErrorMessage(concatenated_ts_code)
    /\ stdout' = Append(stdout, [kind |-> "message", text |-> concatenated_ts_code])
    /\ concat_pc' = "done"
    /\ UNCHANGED <<src_dirs, src_files, read_error, directory_path,
                   concatenated_content, ts_stack, ts_root, ts_pending,
                   concatenated_ts_code, out_file, opened, written>>
    /\ UNCHANGED <<matchVars, treeVars>>

\* lines 62-66
MainWrite ==
    /\ concat_pc = "returned"
    /\ ~IsErrorMessage(concatenated_ts_code)
    /\ out_file' = [exists |-> TRUE, text |-> concatenated_ts_code]
    /\ written' = TRUE
    /\ stdout' = Append(stdout, [kind |-> "success", text |-> OUTPUT_FILE_NAME])
    /\ concat_pc' = "done"
    /\ UNCHANGED <<src_dirs, src_files, read_error, directory_path,
                   concatenated_content, ts_stack, ts_root, ts_pending,
                   concatenated_ts_code, opened>>
    /\ UNCHANGED <<matchVars, treeVars>>

\* lines 62-64, 67-68: opening the output file raises
MainWriteFails ==
    /\ concat_pc = "returned"
    /\ ~IsErrorMessage(concatenated_ts_code)
    /\ stdout' = Append(stdout, [kind |-> "write_error", text |-> OUTPUT_FILE_NAME])
    /\ concat_pc' = "done"
    /\ UNCHANGED <<src_dirs, src_files, read_error, directory_path,
                   concatenated_content, ts_stack, ts_root, ts_pending,
                   concatenated_ts_code, out_file, opened, written>>
    /\ UNCHANGED <<matchVars, treeVars>>

ConcatNext ==
    \/ ConcatNotFound
    \/ ConcatBegin
    \/ ConcatNextDir
    \/ ConcatSkipFile
    \/ ConcatReadFile
    \/ ConcatReadFails
    \/ ConcatReturn
    \/ MainPrintError
    \/ MainWrite
    \/ MainWriteFails

SpecConcat == ConcatInit /\ [][ConcatNext]_vars

(***************************************************************************)
(* Properties of the matcher (SpecMatch).                                  *)
(***************************************************************************)
\* the position of the last rule whose test of lines 56-57 holds, 0 if none
LastMatching(pats, fp, root) ==
    LET hits == {i \in 1..Len(pats) : PatternMatches(pats[i][1], fp, root)}
    IN  IF hits = {} THEN 0 ELSE CHOOSE i \in hits : \A j \in hits : j <= i

LogThenKeep == << <<L_star_log, FALSE>>, <<N_keep_log, TRUE>> >>

\* C1: for a candidate without a ".git" segment the value returned is the
\* polarity of the LAST rule that matches it (excluded unless that rule is a
\* negation), not excluded when no rule matches, and every rule has been
\* evaluated; with ["*.log", "!keep.log"] keep.log is not excluded and
\* other.log is, and with ["!keep.log"] alone keep.log is not excluded.
C1_LastMatchingRuleDecides ==
    (match_pc = "returned" /\ ~HasGitSegment(filepath)) =>
        LET k == LastMatching(patterns, filepath, match_root)
        IN  /\ pattern_index = Len(patterns) + 1
            /\ match_result = (k # 0 /\ ~patterns[k][2])
            /\ (patterns = LogThenKeep /\ basename(filepath) = N_keep_log)
                   => match_result = FALSE
            /\ (patterns = LogThenKeep /\ basename(filepath) = N_other_log)
                   => match_result = TRUE
            /\ (patterns = << <<N_keep_log, TRUE>> >>
                    /\ basename(filepath) = N_keep_log)
                   => match_result = FALSE

\* C1 witness: an exclusion rule matched first, a later negation matched
\* last, and the call returned not-excluded.
C1_Witness ==
    /\ match_pc = "returned"
    /\ ~HasGitSegment(filepath)
    /\ patterns = LogThenKeep
    /\ rule_hits = <<TRUE, TRUE>>
    /\ match_result = FALSE

\* C2: whenever a pattern "X/" is among the rules, the candidate X and every
\* candidate X/anything are reported excluded.
C2_DirPatternExcludesDirAndBeneath ==
    match_pc = "returned" =>
        \A i \in 1..Len(patterns) :
            LET p == patterns[i][1]
                X == SubSeq(p, 1, Len(p) - 1)
                rel == relpath(filepath, match_root)
            IN  (/\ endswith(p, <<SEP>>)
                 /\ ~patterns[i][2]
                 /\ (rel = X \/ startswith(rel, X \o <<SEP>>)))
                    => match_result = TRUE

\* C8: a rule that starts with "/" matches a candidate only when the whole
\* root-relative path matches it ("/foo" matches foo at the root and does
\* not match a/foo); a rule without the leading "/" matches at any depth.
C8_AnchoredRuleMatchesOnlyWholeRelativePath ==
    \A i \in 1..Len(rule_hits) :
        LET p == patterns[i][1]
            rel == relpath(filepath, match_root)
        IN  /\ startswith(p, <<SEP>>) =>
                (rule_hits[i] <=> re_match(PatternRegex(p), rel))
            /\ (p = L_anchored_foo /\ rel = N_foo) => rule_hits[i]
            /\ (p = L_anchored_foo /\ rel = <<"a", "/", "f", "o", "o">>) => ~rule_hits[i]
            /\ (p = L_fo_any /\ rel \in {N_foo, <<"a", "/", "f", "o", "o">>}) => rule_hits[i]

(***************************************************************************)
(* Properties of tree mode (SpecTree).                                     *)
(***************************************************************************)
\* the path under which the traversal reaches the node n of the file system
WalkedPath(n) ==
    JoinAll(root_dir, SubSeq(n, Len(abspath(root_dir)) + 1, Len(n)))

\* n lies strictly below the root directory
BelowRoot(n) ==
    /\ Len(n) > Len(abspath(root_dir))
    /\ SubSeq(n, 1, Len(abspath(root_dir))) = abspath(root_dir)

\* the lines of the listing: every line but the two header lines
ListingLines ==
    {output_content[i] : i \in {j \in 1..Len(output_content) :
                                  output_content[j].kind \in {"dir", "file"}}}

\* path p is q or lies beneath q
AtOrBeneath(p, q) == p = q \/ startswith(p, q \o <<SEP>>)

\* the number of directories between the root and the path
Depth(p) == Len(abspath(p)) - Len(abspath(root_dir))

TreeEnded == tree_pc \in {"done", "raised"}

\* C3: every path with a ".git" segment is reported excluded, whatever the
\* rules, so the listing holds no ".git" directory and nothing beneath one.
C3_GitNeverListed ==
    tree_pc \in {"walk", "done"} =>
        /\ \A n \in fs_dirs \cup fs_files :
               (BelowRoot(n) /\ HasGitSegment(WalkedPath(n))) =>
                   matches_gitignore_pattern(WalkedPath(n), gitignore_patterns,
                                             root_dir)
        /\ \A l \in ListingLines : ~HasGitSegment(l.path)

\* C4: a subdirectory judged excluded while its parent is processed is never
\* descended into: neither it nor anything beneath it is listed or waits to
\* be visited, whatever later negation rule matches a descendant.
C4_NothingListedBeneathPruned ==
    \A p \in pruned :
        /\ \A l \in ListingLines : ~AtOrBeneath(l.path, p)
        /\ \A i \in 1..Len(walk_stack) : ~AtOrBeneath(walk_stack[i], p)

\* C4 witness: the run ended having pruned a directory that holds a file
\* which a negation rule matches and which, evaluated alone, is not excluded.
C4_Witness ==
    /\ tree_pc = "done"
    /\ \E p \in pruned, n \in fs_files :
         /\ BelowRoot(n)
         /\ AtOrBeneath(WalkedPath(n), p)
         /\ ~matches_gitignore_pattern(WalkedPath(n), gitignore_patterns, root_dir)
         /\ \E i \in 1..Len(gitignore_patterns) :
              /\ gitignore_patterns[i][2]
              /\ PatternMatches(gitignore_patterns[i][1], WalkedPath(n), root_dir)

\* C5: when the root directory itself matches an exclusion rule its own line
\* is not written, while its entries that are not excluded are.
C5_ExcludedRootLineSkipped ==
    (/\ tree_pc = "done"
     /\ isdir(fs_dirs, root_dir)
     /\ ~HasGitSegment(root_dir)
     /\ PatternLoop(FALSE, gitignore_patterns, root_dir, root_dir)) =>
        /\ \A l \in ListingLines : ~(l.kind = "dir" /\ l.path = root_dir)
        /\ \A n \in fs_files :
               (/\ BelowRoot(n)
                /\ Len(n) = Len(abspath(root_dir)) + 1
                /\ ~matches_gitignore_pattern(WalkedPath(n), gitignore_patterns,
                                              root_dir)) =>
                   \E l \in ListingLines : l.kind = "file" /\ l.path = WalkedPath(n)

\* C9: every directory line is indented by 4 spaces times the depth of the
\* directory below the root, and every file line by 4 spaces times the depth
\* of its directory plus one, for every root path.
C9_IndentIsFourPerLevel ==
    \A l \in ListingLines :
        /\ l.kind = "dir" => l.indent = 4 * Depth(l.path)
        /\ l.kind = "file" => l.indent = 4 * ((Depth(l.path) - 1) + 1)

\* the output file lies inside the root directory
OutputInsideRoot ==
    isdir(fs_dirs, root_dir) /\ BelowRoot(abspath(output_file))

\* the directory the output file is to be created in exists
OutputDirExists == Ancestors(abspath(output_file)) \subseteq fs_dirs

OutputListed ==
    \E l \in ListingLines :
        l.kind = "file" /\ abspath(l.path) = abspath(output_file)

HeaderFirst ==
    /\ abspath(output_file) \in fs_files
    /\ Len(output_content) >= 2
    /\ SubSeq(output_content, 1, 2) = HeaderLines(root_dir)

SourceFiles ==
    {n \in src_files :
        /\ Len(n) > Len(abspath(directory_path))
        /\ SubSeq(n, 1, Len(abspath(directory_path))) = abspath(directory_path)}

\* the path of file n relative to the source directory, with "/" between names
RelativeName(n) ==
    join_str(SubSeq(n, Len(abspath(directory_path)) + 1, Len(n)), "/")

HasTsSuffix(n) ==
    LET name == n[Len(n)]
    IN  Len(name) >= 3 /\ name[Len(name) - 2] = "." /\ name[Len(name) - 1] = "t"
        /\ name[Len(name)] = "s"

\* the positions of the list of line 14 that hold a given item
Positions(item) ==
    {i \in 1..Len(concatenated_content) : concatenated_content[i] = item}

BlockOf(n) ==
    <<"/", "/", " ", "s", "r", "c", "/">> \o RelativeName(n) \o <<"\n">> \o FileContent(n) \o <<"\n">>

ErrorCommentOf(n) ==
    <<"/", "/", " ", "E", "r", "r", "o", "r", " ", "r", "e", "a", "d", "i", "n", "g", " ">> \o RelativeName(n) \o <<":", " ">> \o read_error[n] \o <<"\n">>

Readable(n) == read_error[n] = EMPTY

\* C6: a read failure on one ".ts" file does not abort the run: that file
\* contributes exactly one error comment naming its relative path and the
\* reason, and no START OF FILE block; every other ".ts" file contributes
\* exactly one complete block (marker, "src/<relative path>" line, content);
\* files without the suffix contribute nothing.
C6_ReadFailureIsLocal ==
    (concat_pc \in {"returned", "done"} /\ isdir(src_dirs, directory_path)) =>
        /\ \A n \in SourceFiles :
             /\ (HasTsSuffix(n) /\ Readable(n)) =>
                    /\ Cardinality(Positions(BlockOf(n))) = 1
                    /\ \A i \in Positions(BlockOf(n)) :
                           i > 1 /\ concatenated_content[i - 1] = START_OF_FILE
             /\ (HasTsSuffix(n) /\ ~Readable(n)) =>
                    /\ Cardinality(Positions(ErrorCommentOf(n))) = 1
                    /\ Positions(BlockOf(n)) = {}
             /\ ~HasTsSuffix(n) =>
                    /\ Positions(BlockOf(n)) = {}
                    /\ Readable(n) \/ Positions(ErrorCommentOf(n)) = {}
        /\ Cardinality(Positions(START_OF_FILE)) =
               Cardinality({n \in SourceFiles : HasTsSuffix(n) /\ Readable(n)})
        /\ Len(concatenated_content) =
               2 * Cardinality({n \in SourceFiles : HasTsSuffix(n) /\ Readable(n)})
               + Cardinality({n \in SourceFiles : HasTsSuffix(n) /\ ~Readable(n)})
        /\ concatenated_ts_code = join_str(concatenated_content, "\n")

\* C6 witness: the run ended with an error comment that has a complete block
\* before it and a complete block after it.
C6_Witness ==
    /\ concat_pc = "done"
    /\ \E bad \in SourceFiles, before \in SourceFiles, after \in SourceFiles :
         /\ HasTsSuffix(bad) /\ ~Readable(bad)
         /\ \E i \in Positions(BlockOf(before)), j \in Positions(ErrorCommentOf(bad)),
               k \in Positions(BlockOf(after)) : i < j /\ j < k

\* C7: when the source directory does not exist the function returns a
\* message starting with "Error:" without walking or reading anything, and
\* the main routine prints it and leaves the output file as it was (absent
\* or with its old text); the output file is written only on runs where the
\* source directory exists.
C7_MissingDirectoryWritesNothing ==
    /\ (concat_pc \in {"returned", "done"} /\ ~isdir(src_dirs, directory_path)) =>
           /\ startswith(concatenated_ts_code, <<"E", "r", "r", "o", "r", ":">>)
           /\ opened = {}
           /\ ts_stack = << >> /\ ts_root = EMPTY /\ concatenated_content = << >>
           /\ out_file \in {[exists |-> FALSE, text |-> EMPTY],
                            [exists |-> TRUE, text |-> <<"o", "l", "d">>]}
           /\ ~written
    /\ (concat_pc = "done" /\ ~isdir(src_dirs, directory_path)) =>
           \E i \in 1..Len(stdout) :
               stdout[i] = [kind |-> "message", text |-> concatenated_ts_code]
    /\ written => isdir(src_dirs, directory_path)

\* C7 witness: the run ended on a missing directory, the message printed and
\* no output file in existence.
C7_Witness ==
    /\ concat_pc = "done"
    /\ abspath(directory_path) \notin src_dirs \cup src_files
    /\ ~out_file.exists
    /\ stdout[Len(stdout)].kind = "message"

=============================================================================
